---- MODULE Spec2Model ----
(***************************************************************************)
(* Model of crazyflie/scripts/crazyflie_server.py: one CrazyflieROS        *)
(* session.  Three execution contexts touch the session's fields without   *)
(* any lock: the watchdog thread (_update), the command-subscriber         *)
(* callback (_cmdVelChanged) and the link driver's callbacks (_connected,  *)
(* _connection_failed, _connection_lost, _disconnected).  The emergency    *)
(* service handler and the process-termination flag are single writes.     *)
(* Every program counter is named after the source line it is about to     *)
(* execute.  Floats are fixed-point integers in units of 1/Scale, so that  *)
(* int() has something to truncate; float rounding is not modelled.        *)
(* Spec and FairSpec are the session with its threads interleaved, from    *)
(* line 35 of __init__ on, where the first callback is registered; in them *)
(* _connected stands for its assignment to _state alone.  The rest of      *)
(* _connected (telemetry blocks, parameter catalog) is in SetupSpec, next   *)
(* to the watchdog, the link callbacks and the writers of the parameter    *)
(* store; the update_params service and the parameter callback are in      *)
(* ParamSpec, the inertial telemetry callback in ImuSpec, and              *)
(* _send_setpoint over wide inputs in PureSpec.  These four start from a   *)
(* session whose __init__ has returned.                                    *)
(***************************************************************************)
EXTENDS Integers, Sequences, FiniteSets, TLC

VARIABLES
    init_pc,        \* __init__: next source line, "done" once it has returned
    state,          \* self._state (Unassigned before line 43)
    isEmergency,    \* self._isEmergency (the attribute exists when HasLatch)
    cmdVel,         \* self._cmdVel (a Twist: linear.x, linear.y, linear.z, angular.z)
    roll_trim,      \* self.roll_trim
    pitch_trim,     \* self.pitch_trim
    isShutdown,     \* rospy.is_shutdown()
    numConn,        \* self._subCmdVel.get_num_connections()
    linkPhase,      \* the link as the driver sees it: closed, opening, up
    pendingEv,      \* second callback of a link loss, not yet delivered
    wd_pc,          \* watchdog thread: next source line of _update
    wd_loc,         \* watchdog thread: locals of _send_setpoint
    wd_i,           \* watchdog thread: loop variable of the shutdown loop
    wd_branch,      \* watchdog thread: branch taken at line 260 in this iteration
    wd_sent,        \* setpoints the watchdog handed to the link in this iteration
    sdCount,        \* number of send_setpoint(0,0,0,0) calls made at line 269
    closeCount,     \* number of close_link calls made at line 274
    wd_gap,         \* ms of sleep the watchdog requested since its last send while
                    \* _state stayed Connected and the loop went on; NoGap otherwise
    cb_pc,          \* subscriber callback: next source line of _cmdVelChanged
    cb_data,        \* subscriber callback: the message it was called with
    cb_loc,         \* subscriber callback: locals of _send_setpoint
    cb_sent,        \* setpoints this callback invocation handed to the link
    cb_emBegin,     \* the latch as it was when this invocation began (kept up to line 246)
    p_pc,           \* _send_setpoint run on its own: position
    p_t,            \* _send_setpoint run on its own: a second thrust input
    p_out,          \* _send_setpoint run on its own: sender, setpoint, clamp results
    node_ns,        \* rospy.get_namespace(): the namespace the node was started in
    store,          \* the external parameter store: resolved path -> value
    u_pc,           \* _update_params: next source line
    u_req,          \* _update_params: req.params
    u_i,            \* _update_params: position of the for loop in req.params
    u_val,          \* _update_params: the answer of rospy.get_param at line 228
    pushes,         \* set_value calls made for the current request: <<id, value>>
    enable_logging, \* self.enable_logging
    dev,            \* the device: its parameter catalog and whether each telemetry
                    \* block validates against its capability table
    conns,          \* number of entries into Connected
    s_pc,           \* _connected: next source line
    s_loop,         \* _connected: the two for loops of lines 126-134
    s_val,          \* _connected: the answer of rospy.get_param at line 132
    s_acts,         \* parameter calls made in the latest session setup, per entry
    tele,           \* add_config, start and add_update_callback calls made so far
    imu_pc,         \* _log_data_imu: waiting for a sample, or called with one
    imu_data,       \* _log_data_imu: the sample (device units)
    imu_msg         \* the Imu message last published on self._pubImu

vars == <<init_pc, state, isEmergency, cmdVel, roll_trim, pitch_trim, isShutdown, numConn,
          linkPhase, pendingEv, wd_pc, wd_loc, wd_i, wd_branch, wd_sent,
          sdCount, closeCount, wd_gap, cb_pc, cb_data, cb_loc, cb_sent,
          cb_emBegin, p_pc, p_t, p_out, node_ns, store, u_pc, u_req, u_i, u_val,
          pushes, enable_logging, dev, conns, s_pc, s_loop, s_val, s_acts, tele,
          imu_pc, imu_data, imu_msg>>

sessionVars == <<init_pc, state, isEmergency, cmdVel, roll_trim, pitch_trim, isShutdown, numConn,
          linkPhase, pendingEv, wd_pc, wd_loc, wd_i, wd_branch, wd_sent,
          sdCount, closeCount, wd_gap, cb_pc, cb_data, cb_loc, cb_sent,
          cb_emBegin>>

pureVars == <<p_pc, p_t, p_out>>

paramVars == <<node_ns, store, u_pc, u_req, u_i, u_val, pushes>>

setupVars == <<enable_logging, dev, conns, s_pc, s_loop, s_val, s_acts, tele>>

imuVars == <<imu_pc, imu_data, imu_msg>>

harnessVars == <<pureVars, paramVars, setupVars, imuVars>>

wdVars == <<wd_pc, wd_loc, wd_i, wd_branch, wd_sent, sdCount, closeCount>>

cbVars == <<cb_pc, cb_data, cb_loc, cb_sent, cb_emBegin>>

linkVars == <<linkPhase, pendingEv>>

----------------------------------------------------------------------------
(* Constants of the program *)

(* self._state before line 43 has assigned it *)
Unassigned == -1

Disconnected == 0

Connecting == 1

Connected == 2

MaxThrust == 60000

ShutdownCountShort == 100 - 1

ShutdownCount == 100

(* rospy.sleep(0.2) of line 265 and rospy.sleep(0.5) of line 267, in ms *)
SleepConnectedLong == 200 + 300

SleepConnected == 200

SleepConnecting == 500

(* line 178: 9.81, in hundredths *)
Gravity == 981

(* pi in millionths, for math.radians of line 173 *)
PiMicro == 3141593

(* Fixed-point unit: a float v is the integer v * Scale *)
Scale == 10

(* Bounds of the model *)
MaxPublishers == 1

MaxAxis == 2

MaxReq == 2

MaxConnects == 2

MaxG == 2

(* the sleep account stops counting here *)
GapCap == 1000

----------------------------------------------------------------------------
(* Values *)

Twist(lx, ly, lz, az) == [lx |-> lx, ly |-> ly, lz |-> lz, az |-> az]

ZeroTwist == Twist(0, 0, 0, 0)

Setpoint(r, p, y, t) == [roll |-> r, pitch |-> p, yawrate |-> y, thrust |-> t]

ZeroSetpoint == Setpoint(0, 0, 0, 0)

NoLocals == Setpoint(0, 0, 0, 0)

Min(a, b) == IF a < b THEN a ELSE b

(* no watchdog send to count from *)
NoGap == -1

(* the sleep account after a sleep of ms milliseconds *)
Slept(gap, ms) == IF gap = NoGap THEN NoGap ELSE Min(gap + ms, GapCap)

Max(a, b) == IF a > b THEN a ELSE b

(* int(x) of a float: truncation toward zero; the result is a whole number *)
IntOf(v) == IF v >= 0 THEN v \div Scale ELSE -((-v) \div Scale)

Clamp_NoUpper(t) == Max(0, t)

(* line 240: min(max(0, t), 60000) *)
Clamp(t) == Min(Max(0, t), MaxThrust)

(* line 237 *)
RollOf(tw, rt) == tw.ly + rt

(* line 238 *)
PitchOf(tw, pt) == tw.lx + pt

(* line 239 *)
YawrateOf(tw) == tw.az

ThrustOf_NoLower(tw) == Min(IntOf(tw.lz), MaxThrust)

(* line 240 *)
ThrustOf(tw) == Clamp(IntOf(tw.lz))

(* The command the subscriber delivers: the spec's scenario, lateral 2.0, *)
(* longitudinal 3.0, angular 0.1, vertical 100                           *)
CmdA == Twist(30, 20, 1000, 1)

Cmds == {CmdA}

(* Trims a session may be created with: the spec's scenario (1.0, -0.5) *)
TrimPairs == {<<10, -5>>}

----------------------------------------------------------------------------
(* Parameter names and paths are strings: sequences of characters.  The    *)
(* external store maps a resolved path to a value; a path it holds no      *)
(* value for is outside its domain.                                        *)

(* self.tf_prefix *)
tf_prefix == <<"c">>

(* str.replace(a, b) *)
Replace(str, a, b) == [k \in 1..Len(str) |-> IF str[k] = a THEN b ELSE str[k]]

(* the namespaces a node is started in: the root, and /ns *)
RootNs == <<"/">>

Namespaces == {RootNs, <<"/", "n", "s", "/">>}

(* rospy resolves a name with a leading slash as it is, and a name       *)
(* without one against the namespace of the node                         *)
Resolve(name) == IF name # <<>> /\ name[1] = "/" THEN name ELSE node_ns \o name

(* line 224: "/{}/{}".format(self.tf_prefix, param) *)
RosParamOfPath(param) == <<"/">> \o tf_prefix \o <<"/">> \o param

(* line 225: param.replace("/", ".") *)
CfParamOfPath(param) == Replace(param, "/", ".")

(* line 218: "{}/{}".format(self.tf_prefix, name.replace(".", "/")) *)
RosParamOfName(name) == tf_prefix \o <<"/">> \o Replace(name, ".", "/")

Digit(d) == <<"0", "1", "2", "3", "4", "5", "6", "7", "8", "9">>[d + 1]

RECURSIVE Digits(_)
Digits(n) == IF n < 10 THEN <<Digit(n)>> ELSE Append(Digits(n \div 10), Digit(n % 10))

(* line 228: str(v) of an integer value *)
StrOf(v) == IF v < 0 THEN <<"-">> \o Digits(-v) ELSE Digits(v)

(* rospy.has_param, rospy.get_param, rospy.set_param *)
HasParam(st, name) == Resolve(name) \in DOMAIN st

GetParam(st, name) == st[Resolve(name)]

SetParam(st, name, v) == (Resolve(name) :> v) @@ st

(* line 45: the update_params service is registered and idle; the store  *)
(* holds no parameter of this session yet                                *)
ParamsIdle ==
    /\ store = <<>>
    /\ u_pc = "idle"
    /\ u_req = <<>>
    /\ u_i = 0
    /\ u_val = 0
    /\ pushes = <<>>

(* The telemetry blocks of lines 64 and 83 *)
Blocks == {"IMU", "LOG2"}

NoLoop == [groups |-> {}, group |-> "", names |-> {}, name |-> ""]

NoCalls == [reg |-> [b \in Blocks |-> 0], started |-> [b \in Blocks |-> 0], cbs |-> 0]

(* a session without telemetry whose device has not been seen yet *)
SetupIdle ==
    /\ enable_logging = FALSE
    /\ dev = [toc |-> {}, logOK |-> [b \in Blocks |-> TRUE]]
    /\ conns = 0
    /\ s_pc = "idle"
    /\ s_loop = NoLoop
    /\ s_val = 0
    /\ s_acts = <<>>
    /\ tele = NoCalls

(* an Imu message: angular velocity in millionths of rad/s, linear      *)
(* acceleration in hundredths of m/s^2                                  *)
ImuMsg(fr, cov, av, la) ==
    [frame_id |-> fr, orientation_covariance0 |-> cov,
     angular_velocity |-> av, linear_acceleration |-> la]

NoSample == [gyro |-> <<0, 0, 0>>, acc |-> <<0, 0, 0>>]

NoMsg == ImuMsg(<<>>, 0, <<0, 0, 0>>, <<0, 0, 0>>)

(* no inertial sample has arrived *)
ImuIdle ==
    /\ imu_pc = "idle"
    /\ imu_data = NoSample
    /\ imu_msg = NoMsg

----------------------------------------------------------------------------
(* __init__, lines 20-34: the session is being constructed; its fields   *)
(* up to self._cmdVel are assigned, the subscriber, the services and the *)
(* watchdog thread do not exist yet                                      *)
Init ==
    /\ init_pc = "L35"
    /\ state = Unassigned
    /\ isEmergency = FALSE
    /\ cmdVel = ZeroTwist
    /\ \E tp \in TrimPairs : roll_trim = tp[1] /\ pitch_trim = tp[2]
    /\ isShutdown = FALSE
    /\ numConn = 0
    /\ linkPhase = "closed"
    /\ pendingEv = "none"
    /\ wd_pc = "unstarted"
    /\ wd_loc = NoLocals
    /\ wd_i = 0
    /\ wd_branch = "none"
    /\ wd_sent = <<>>
    /\ sdCount = 0
    /\ closeCount = 0
    /\ wd_gap = NoGap
    /\ cb_pc = "idle"
    /\ cb_data = ZeroTwist
    /\ cb_loc = NoLocals
    /\ cb_sent = <<>>
    /\ cb_emBegin = FALSE
    /\ p_pc = "off"
    /\ p_t = 0
    /\ p_out = [by |-> "none", sp |-> ZeroSetpoint, c2 |-> 0, cc |-> 0]
    /\ node_ns = RootNs
    /\ ParamsIdle
    /\ SetupIdle
    /\ ImuIdle


(* __init__, lines 20-49: the session when __init__ has returned *)
Constructed ==
    /\ init_pc = "done"
    /\ state = Disconnected
    /\ isEmergency = FALSE
    /\ cmdVel = ZeroTwist
    /\ \E tp \in TrimPairs : roll_trim = tp[1] /\ pitch_trim = tp[2]
    /\ isShutdown = FALSE
    /\ numConn = 0
    /\ linkPhase = "closed"
    /\ pendingEv = "none"
    /\ wd_pc = "L250"
    /\ wd_loc = NoLocals
    /\ wd_i = 0
    /\ wd_branch = "none"
    /\ wd_sent = <<>>
    /\ sdCount = 0
    /\ closeCount = 0
    /\ wd_gap = NoGap
    /\ cb_pc = "idle"
    /\ cb_data = ZeroTwist
    /\ cb_loc = NoLocals
    /\ cb_sent = <<>>
    /\ cb_emBegin = FALSE
    /\ p_pc = "off"
    /\ p_t = 0
    /\ p_out = [by |-> "none", sp |-> ZeroSetpoint, c2 |-> 0, cc |-> 0]
    /\ node_ns \in Namespaces
    /\ ParamsIdle
    /\ SetupIdle
    /\ ImuIdle


(* self._isEmergency exists: line 47 has run, or _emergency has assigned it *)
HasLatch == isEmergency \/ init_pc \in {"L49", "done"}

(* __init__, lines 35-49, one step per statement that another thread can *)
(* see.  Line 35: rospy.Subscriber; from here on _cmdVelChanged is called *)
Ctor_L35 ==
    /\ init_pc = "L35"
    /\ init_pc' = "L43"
    /\ UNCHANGED <<state, isEmergency, cmdVel, roll_trim, pitch_trim, isShutdown, numConn,
                   linkVars, wdVars, wd_gap, cbVars, harnessVars>>

(* lines 37-43: the publishers, self._state = CrazyflieROS.Disconnected *)
Ctor_L43 ==
    /\ init_pc = "L43"
    /\ state' = Disconnected
    /\ init_pc' = "L45"
    /\ UNCHANGED <<isEmergency, cmdVel, roll_trim, pitch_trim, isShutdown, numConn,
                   linkVars, wdVars, wd_gap, cbVars, harnessVars>>

(* lines 45-46: rospy.Service for update_params and for emergency; from *)
(* here on _emergency is called                                         *)
Ctor_L45 ==
    /\ init_pc = "L45"
    /\ init_pc' = "L47"
    /\ UNCHANGED <<state, isEmergency, cmdVel, roll_trim, pitch_trim, isShutdown, numConn,
                   linkVars, wdVars, wd_gap, cbVars, harnessVars>>

(* line 47: self._isEmergency = False *)
Ctor_L47 ==
    /\ init_pc = "L47"
    /\ isEmergency' = FALSE
    /\ init_pc' = "L49"
    /\ UNCHANGED <<state, cmdVel, roll_trim, pitch_trim, isShutdown, numConn,
                   linkVars, wdVars, wd_gap, cbVars, harnessVars>>

(* line 49: Thread(target=self._update).start() *)
Ctor_L49 ==
    /\ init_pc = "L49"
    /\ wd_pc' = "L250"
    /\ init_pc' = "done"
    /\ UNCHANGED <<state, isEmergency, cmdVel, roll_trim, pitch_trim, isShutdown, numConn,
                   linkVars, wd_loc, wd_i, wd_branch, wd_sent, sdCount, closeCount,
                   wd_gap, cbVars, harnessVars>>

Construct ==
    \/ Ctor_L35
    \/ Ctor_L43
    \/ Ctor_L45
    \/ Ctor_L47
    \/ Ctor_L49

----------------------------------------------------------------------------
(* Link callbacks, lines 56-157.  Each handler is one assignment to _state. *)

_connected ==
    state' = Connected

_connection_failed ==
    state' = Disconnected

_connection_lost ==
    state' = Disconnected

_disconnected ==
    state' = Disconnected

_link_quality_updated ==
    UNCHANGED state

Handler(ev) ==
    CASE ev = "lost" -> _connection_lost
      [] ev = "disconnected" -> _disconnected

(* the callbacks the driver makes for a link that broke *)
LossEvents == {"lost", "disconnected"}

(* The link driver reports that the link is up and the catalogs are loaded. *)
(* The driver delivers the callbacks of an earlier loss before those of a   *)
(* later open request.                                                      *)
LinkConnected ==
    /\ linkPhase = "opening"
    /\ pendingEv = "none"
    /\ linkPhase' = "up"
    /\ _connected
    /\ UNCHANGED <<isEmergency, cmdVel, roll_trim, pitch_trim, isShutdown, numConn,
                   pendingEv, wdVars, cbVars, harnessVars>>
    /\ UNCHANGED wd_gap
    /\ UNCHANGED init_pc

(* The link driver reports that the open request failed *)
LinkOpenFailed ==
    /\ linkPhase = "opening"
    /\ pendingEv = "none"
    /\ linkPhase' = "closed"
    /\ _connection_failed
    /\ UNCHANGED <<isEmergency, cmdVel, roll_trim, pitch_trim, isShutdown, numConn,
                   pendingEv, wdVars, cbVars, harnessVars>>
    /\ wd_gap' = NoGap
    /\ UNCHANGED init_pc

(* An established link breaks: the driver calls both _connection_lost and   *)
(* _disconnected ("called in all cases"), one after the other, in its own   *)
(* order; the second call is pending until LinkLostSecond.  The two         *)
(* handlers make the same assignment, so pendingEv records that a call is   *)
(* to come, not which.                                                      *)
LinkLost ==
    /\ linkPhase = "up"
    /\ pendingEv = "none"
    /\ linkPhase' = "closed"
    /\ \E first \in LossEvents : Handler(first)
    /\ pendingEv' = "second"
    /\ UNCHANGED <<isEmergency, cmdVel, roll_trim, pitch_trim, isShutdown, numConn, wdVars, cbVars, harnessVars>>
    /\ wd_gap' = NoGap
    /\ UNCHANGED init_pc

LinkLostSecond ==
    /\ pendingEv = "second"
    /\ \E second \in LossEvents : Handler(second)
    /\ pendingEv' = "none"
    /\ UNCHANGED <<isEmergency, cmdVel, roll_trim, pitch_trim, isShutdown, numConn,
                   linkPhase, wdVars, cbVars, harnessVars>>
    /\ wd_gap' = NoGap
    /\ UNCHANGED init_pc

LinkQuality ==
    /\ linkPhase = "up"
    /\ _link_quality_updated
    /\ UNCHANGED <<isEmergency, cmdVel, roll_trim, pitch_trim, isShutdown, numConn,
                   linkVars, wdVars, cbVars, harnessVars>>
    /\ UNCHANGED wd_gap
    /\ UNCHANGED init_pc

----------------------------------------------------------------------------
(* Service handler, clients of the topic, process termination *)

(* _emergency, lines 231-234: sets the latch and returns *)
_emergency ==
    /\ init_pc \in {"L47", "L49", "done"}
    /\ isEmergency' = TRUE
    /\ UNCHANGED <<state, cmdVel, roll_trim, pitch_trim, isShutdown, numConn,
                   linkVars, wdVars, cbVars, harnessVars>>
    /\ UNCHANGED wd_gap
    /\ UNCHANGED init_pc

(* rospy.is_shutdown() becomes true *)
RosShutdown ==
    /\ ~isShutdown
    /\ isShutdown' = TRUE
    /\ UNCHANGED <<state, isEmergency, cmdVel, roll_trim, pitch_trim, numConn,
                   linkVars, wdVars, cbVars, harnessVars>>
    /\ UNCHANGED wd_gap
    /\ UNCHANGED init_pc

(* A publisher connects to, or disconnects from, the cmd_vel subscriber *)
PublisherConnect ==
    /\ init_pc # "L35"
    /\ numConn < MaxPublishers
    /\ numConn' = numConn + 1
    /\ UNCHANGED <<state, isEmergency, cmdVel, roll_trim, pitch_trim, isShutdown,
                   linkVars, wdVars, cbVars, harnessVars>>
    /\ UNCHANGED wd_gap
    /\ UNCHANGED init_pc

PublisherDisconnect ==
    /\ numConn > 0
    /\ numConn' = numConn - 1
    /\ UNCHANGED <<state, isEmergency, cmdVel, roll_trim, pitch_trim, isShutdown,
                   linkVars, wdVars, cbVars, harnessVars>>
    /\ UNCHANGED wd_gap
    /\ UNCHANGED init_pc

----------------------------------------------------------------------------
(* _send_setpoint, lines 236-242, one step per statement.  Each statement   *)
(* reads self._cmdVel anew.  loc are the caller's locals.                   *)

SendStep(pc, loc) ==
    CASE pc = "L237" -> [loc EXCEPT !.roll = RollOf(cmdVel, roll_trim)]
      [] pc = "L238" -> [loc EXCEPT !.pitch = PitchOf(cmdVel, pitch_trim)]
      [] pc = "L239" -> [loc EXCEPT !.yawrate = YawrateOf(cmdVel)]
      [] pc = "L240" -> [loc EXCEPT !.thrust = ThrustOf(cmdVel)]

SendNext(pc) ==
    CASE pc = "L237" -> "L238"
      [] pc = "L238" -> "L239"
      [] pc = "L239" -> "L240"
      [] pc = "L240" -> "L242"

SendPCs == {"L237", "L238", "L239", "L240"}

----------------------------------------------------------------------------
(* _cmdVelChanged, lines 244-247, called by the subscriber for a message *)

CmdVelBegin ==
    /\ cb_pc = "idle"
    /\ numConn > 0
    /\ \E data \in Cmds : cb_data' = data
    /\ cb_pc' = "L245"
    /\ cb_emBegin' = isEmergency
    /\ UNCHANGED <<state, isEmergency, cmdVel, roll_trim, pitch_trim, isShutdown,
                   numConn, linkVars, wdVars, cb_loc, cb_sent,
                   harnessVars>>
    /\ UNCHANGED wd_gap
    /\ UNCHANGED init_pc

(* line 245: self._cmdVel = data *)
Cb_L245 ==
    /\ cb_pc = "L245"
    /\ cmdVel' = cb_data
    /\ cb_pc' = "L246"
    /\ UNCHANGED <<state, isEmergency, roll_trim, pitch_trim, isShutdown, numConn,
                   linkVars, wdVars, cb_data, cb_loc, cb_sent, cb_emBegin, harnessVars>>
    /\ UNCHANGED wd_gap
    /\ UNCHANGED init_pc

(* line 246: if not self._isEmergency; while the attribute does not   *)
(* exist yet the read raises AttributeError, which ends the call      *)
Cb_L246 ==
    /\ cb_pc = "L246"
    /\ cb_pc' = IF ~HasLatch THEN "idle" ELSE IF ~isEmergency THEN "L237" ELSE "ret"
    /\ cb_data' = IF ~HasLatch THEN ZeroTwist ELSE cb_data
    /\ cb_emBegin' = FALSE
    /\ UNCHANGED <<state, isEmergency, cmdVel, roll_trim, pitch_trim, isShutdown,
                   numConn, linkVars, wdVars, cb_loc, cb_sent,
                   harnessVars>>
    /\ UNCHANGED wd_gap
    /\ UNCHANGED init_pc

(* line 247: self._send_setpoint(), lines 237-240 *)
Cb_Compute ==
    /\ cb_pc \in SendPCs
    /\ cb_loc' = SendStep(cb_pc, cb_loc)
    /\ cb_pc' = SendNext(cb_pc)
    /\ UNCHANGED <<state, isEmergency, cmdVel, roll_trim, pitch_trim, isShutdown,
                   numConn, linkVars, wdVars, cb_data, cb_sent, cb_emBegin, harnessVars>>
    /\ UNCHANGED wd_gap
    /\ UNCHANGED init_pc

(* line 242: self._cf.commander.send_setpoint(roll, pitch, yawrate, thrust) *)
Cb_L242 ==
    /\ cb_pc = "L242"
    /\ cb_sent' = Append(cb_sent, cb_loc)
    /\ cb_loc' = NoLocals
    /\ cb_pc' = "ret"
    /\ UNCHANGED <<state, isEmergency, cmdVel, roll_trim, pitch_trim, isShutdown,
                   numConn, linkVars, wdVars, cb_data, cb_emBegin, harnessVars>>
    /\ UNCHANGED wd_gap
    /\ UNCHANGED init_pc

(* the callback returns to the subscriber *)
Cb_Return ==
    /\ cb_pc = "ret"
    /\ cb_pc' = "idle"
    /\ cb_data' = ZeroTwist
    /\ cb_sent' = <<>>
    /\ cb_emBegin' = FALSE
    /\ UNCHANGED <<state, isEmergency, cmdVel, roll_trim, pitch_trim, isShutdown,
                   numConn, linkVars, wdVars, cb_loc, harnessVars>>
    /\ UNCHANGED wd_gap
    /\ UNCHANGED init_pc

CmdVelChanged ==
    \/ CmdVelBegin
    \/ Cb_L245
    \/ Cb_L246
    \/ Cb_Compute
    \/ Cb_L242
    \/ Cb_Return

----------------------------------------------------------------------------
(* _update, lines 249-274: the watchdog thread *)

PeriodicPCs == {"L250", "L251", "L254", "L53", "L54", "L256", "L260", "L263",
                "L237", "L238", "L239", "L240", "L242", "L265", "L267"}

ShutdownPCs == {"L268", "L269", "L270", "L273", "L274"}

(* line 250: while not rospy.is_shutdown() *)
Wd_L250 ==
    /\ wd_pc = "L250"
    /\ wd_pc' = IF isShutdown THEN "L268" ELSE "L251"
    /\ UNCHANGED <<state, isEmergency, cmdVel, roll_trim, pitch_trim, isShutdown,
                   numConn, linkVars, wd_loc, wd_i, wd_branch, wd_sent, sdCount,
                   closeCount, cbVars, harnessVars>>
    /\ wd_gap' = IF isShutdown THEN NoGap ELSE wd_gap
    /\ UNCHANGED init_pc

Wd_L251_NoBreak ==
    /\ wd_pc = "L251"
    /\ wd_pc' = "L254"
    /\ UNCHANGED <<state, isEmergency, cmdVel, roll_trim, pitch_trim, isShutdown,
                   numConn, linkVars, wd_loc, wd_i, wd_branch, wd_sent,
                   sdCount, closeCount, cbVars, harnessVars>>
    /\ UNCHANGED wd_gap
    /\ UNCHANGED init_pc

(* lines 251-252: if self._isEmergency: break *)
Wd_L251 ==
    /\ wd_pc = "L251"
    /\ wd_pc' = IF isEmergency THEN "L268" ELSE "L254"
    /\ UNCHANGED <<state, isEmergency, cmdVel, roll_trim, pitch_trim, isShutdown,
                   numConn, linkVars, wd_loc, wd_i, wd_branch, wd_sent, sdCount, closeCount, cbVars, harnessVars>>
    /\ wd_gap' = IF isEmergency THEN NoGap ELSE wd_gap
    /\ UNCHANGED init_pc

Wd_L254_NoRetry ==
    /\ wd_pc = "L254"
    /\ wd_pc' = "L256"
    /\ UNCHANGED <<state, isEmergency, cmdVel, roll_trim, pitch_trim, isShutdown,
                   numConn, linkVars, wd_loc, wd_i, wd_branch, wd_sent,
                   sdCount, closeCount, cbVars, harnessVars>>
    /\ UNCHANGED wd_gap
    /\ UNCHANGED init_pc

(* line 254: if self._state == CrazyflieROS.Disconnected *)
Wd_L254 ==
    /\ wd_pc = "L254"
    /\ wd_pc' = IF state = Disconnected THEN "L53" ELSE "L256"
    /\ UNCHANGED <<state, isEmergency, cmdVel, roll_trim, pitch_trim, isShutdown,
                   numConn, linkVars, wd_loc, wd_i, wd_branch, wd_sent, sdCount, closeCount, cbVars, harnessVars>>
    /\ UNCHANGED wd_gap
    /\ UNCHANGED init_pc

(* _try_to_connect, line 53: self._state = CrazyflieROS.Connecting *)
Wd_L53 ==
    /\ wd_pc = "L53"
    /\ state' = Connecting
    /\ wd_pc' = "L54"
    /\ UNCHANGED <<isEmergency, cmdVel, roll_trim, pitch_trim, isShutdown,
                   numConn, linkVars, wd_loc, wd_i, wd_branch, wd_sent, sdCount, closeCount, cbVars, harnessVars>>
    /\ wd_gap' = NoGap
    /\ UNCHANGED init_pc

(* _try_to_connect, line 54: self._cf.open_link(self.link_uri); the loop *)
(* continues at line 250 without sleeping                                *)
Wd_L54 ==
    /\ wd_pc = "L54"
    /\ linkPhase' = "opening"
    /\ wd_pc' = "L250"
    /\ UNCHANGED <<state, isEmergency, cmdVel, roll_trim, pitch_trim, isShutdown,
                   numConn, pendingEv, wd_loc, wd_i, wd_branch, wd_sent,
                   sdCount, closeCount, cbVars, harnessVars>>
    /\ UNCHANGED wd_gap
    /\ UNCHANGED init_pc

Wd_L256_NoCheck ==
    /\ wd_pc = "L256"
    /\ wd_pc' = "L260"
    /\ UNCHANGED <<state, isEmergency, cmdVel, roll_trim, pitch_trim, isShutdown,
                   numConn, linkVars, wd_loc, wd_i, wd_branch, wd_sent, sdCount,
                   closeCount, wd_gap, cbVars, harnessVars>>
    /\ UNCHANGED init_pc

(* line 256: elif self._state == CrazyflieROS.Connected *)
Wd_L256 ==
    /\ wd_pc = "L256"
    /\ wd_pc' = IF state = Connected THEN "L260" ELSE "L267"
    /\ UNCHANGED <<state, isEmergency, cmdVel, roll_trim, pitch_trim, isShutdown,
                   numConn, linkVars, wd_loc, wd_i, wd_branch, wd_sent, sdCount, closeCount, cbVars, harnessVars>>
    /\ UNCHANGED wd_gap
    /\ UNCHANGED init_pc

(* line 260: if self._subCmdVel.get_num_connections() > 0 *)
Wd_L260 ==
    /\ wd_pc = "L260"
    /\ wd_branch' = IF numConn > 0 THEN "sub" ELSE "nosub"
    /\ wd_pc' = IF numConn > 0 THEN "L237" ELSE "L263"
    /\ UNCHANGED <<state, isEmergency, cmdVel, roll_trim, pitch_trim, isShutdown,
                   numConn, linkVars, wd_loc, wd_i, wd_sent, sdCount, closeCount, cbVars, harnessVars>>
    /\ UNCHANGED wd_gap
    /\ UNCHANGED init_pc

(* line 263: self._cmdVel = Twist() *)
Wd_L263 ==
    /\ wd_pc = "L263"
    /\ cmdVel' = ZeroTwist
    /\ wd_pc' = "L237"
    /\ UNCHANGED <<state, isEmergency, roll_trim, pitch_trim, isShutdown,
                   numConn, linkVars, wd_loc, wd_i, wd_branch, wd_sent, sdCount, closeCount, cbVars, harnessVars>>
    /\ UNCHANGED wd_gap
    /\ UNCHANGED init_pc

(* lines 261 and 264: self._send_setpoint(), lines 237-240 *)
Wd_Compute ==
    /\ wd_pc \in SendPCs
    /\ wd_loc' = SendStep(wd_pc, wd_loc)
    /\ wd_pc' = SendNext(wd_pc)
    /\ UNCHANGED <<state, isEmergency, cmdVel, roll_trim, pitch_trim, isShutdown,
                   numConn, linkVars, wd_i, wd_branch, wd_sent, sdCount, closeCount, cbVars, harnessVars>>
    /\ UNCHANGED wd_gap
    /\ UNCHANGED init_pc

(* line 242: self._cf.commander.send_setpoint(roll, pitch, yawrate, thrust) *)
Wd_L242 ==
    /\ wd_pc = "L242"
    /\ wd_sent' = Append(wd_sent, wd_loc)
    /\ wd_loc' = NoLocals
    /\ wd_pc' = "L265"
    /\ UNCHANGED <<state, isEmergency, cmdVel, roll_trim, pitch_trim, isShutdown,
                   numConn, linkVars, wd_i, wd_branch, sdCount, closeCount, cbVars, harnessVars>>
    /\ wd_gap' = IF state = Connected THEN 0 ELSE NoGap
    /\ UNCHANGED init_pc

(* line 265: rospy.sleep(0.2); the iteration is over *)
Wd_L265 ==
    /\ wd_pc = "L265"
    /\ wd_pc' = "L250"
    /\ wd_branch' = "none"
    /\ wd_sent' = <<>>
    /\ UNCHANGED <<state, isEmergency, cmdVel, roll_trim, pitch_trim, isShutdown,
                   numConn, linkVars, wd_loc, wd_i, sdCount, closeCount, cbVars,
                   harnessVars>>
    /\ wd_gap' = Slept(wd_gap, SleepConnected)
    /\ UNCHANGED init_pc

(* line 267: rospy.sleep(0.5) *)
Wd_L267 ==
    /\ wd_pc = "L267"
    /\ wd_pc' = "L250"
    /\ UNCHANGED <<state, isEmergency, cmdVel, roll_trim, pitch_trim, isShutdown,
                   numConn, linkVars, wd_loc, wd_i, wd_branch, wd_sent, sdCount, closeCount, cbVars, harnessVars>>
    /\ wd_gap' = Slept(wd_gap, SleepConnecting)
    /\ UNCHANGED init_pc

(* line 268: for i in range(0, 100), on entering the loop: i = 0 *)
Wd_L268 ==
    /\ wd_pc = "L268"
    /\ wd_i' = 0
    /\ wd_pc' = IF 0 < ShutdownCount THEN "L269" ELSE "L273"
    /\ UNCHANGED <<state, isEmergency, cmdVel, roll_trim, pitch_trim, isShutdown,
                   numConn, linkVars, wd_loc, wd_branch, wd_sent, sdCount, closeCount, cbVars, harnessVars>>
    /\ UNCHANGED wd_gap
    /\ UNCHANGED init_pc

(* line 269: self._cf.commander.send_setpoint(0, 0, 0, 0); the thread   *)
(* then waits in rospy.sleep(0.01) of line 270, i not yet advanced      *)
Wd_L269 ==
    /\ wd_pc = "L269"
    /\ wd_sent' = <<ZeroSetpoint>>
    /\ sdCount' = sdCount + 1
    /\ wd_pc' = "L270"
    /\ UNCHANGED <<state, isEmergency, cmdVel, roll_trim, pitch_trim, isShutdown,
                   numConn, linkVars, wd_loc, wd_i, wd_branch, closeCount, cbVars,
                   harnessVars>>
    /\ UNCHANGED wd_gap
    /\ UNCHANGED init_pc

(* line 270: rospy.sleep(0.01) returns, and the loop head of line 268    *)
(* takes the next i, or ends the loop, leaving i at its last value       *)
Wd_L270 ==
    /\ wd_pc = "L270"
    /\ wd_i' = IF wd_i + 1 < ShutdownCount THEN wd_i + 1 ELSE wd_i
    /\ wd_pc' = IF wd_i + 1 < ShutdownCount THEN "L269" ELSE "L273"
    /\ UNCHANGED <<state, isEmergency, cmdVel, roll_trim, pitch_trim, isShutdown,
                   numConn, linkVars, wd_loc, wd_branch, wd_sent, sdCount, closeCount,
                   cbVars, harnessVars>>
    /\ UNCHANGED wd_gap
    /\ UNCHANGED init_pc

(* line 273: rospy.sleep(0.1) *)
Wd_L273 ==
    /\ wd_pc = "L273"
    /\ wd_pc' = "L274"
    /\ UNCHANGED <<state, isEmergency, cmdVel, roll_trim, pitch_trim, isShutdown,
                   numConn, linkVars, wd_loc, wd_i, wd_branch, wd_sent, sdCount, closeCount, cbVars, harnessVars>>
    /\ UNCHANGED wd_gap
    /\ UNCHANGED init_pc

(* line 274: self._cf.close_link(); the thread ends.  Whether the driver  *)
(* calls _disconnected from close_link is the driver's choice.            *)
Wd_L274 ==
    /\ wd_pc = "L274"
    /\ closeCount' = closeCount + 1
    /\ linkPhase' = "closed"
    /\ \E called \in BOOLEAN : IF called THEN _disconnected ELSE UNCHANGED state
    /\ wd_pc' = "done"
    /\ UNCHANGED <<isEmergency, cmdVel, roll_trim, pitch_trim, isShutdown,
                   numConn, pendingEv, wd_loc, wd_i, wd_branch, wd_sent, sdCount, cbVars, harnessVars>>
    /\ wd_gap' = NoGap
    /\ UNCHANGED init_pc

Update ==
    \/ Wd_L250
    \/ Wd_L251
    \/ Wd_L254
    \/ Wd_L53
    \/ Wd_L54
    \/ Wd_L256
    \/ Wd_L260
    \/ Wd_L263
    \/ Wd_Compute
    \/ Wd_L242
    \/ Wd_L265
    \/ Wd_L267
    \/ Wd_L268
    \/ Wd_L269
    \/ Wd_L270
    \/ Wd_L273
    \/ Wd_L274

----------------------------------------------------------------------------
(* The session: the watchdog thread, the subscriber callback, the service *)
(* handler and the link driver's callbacks, interleaved                   *)

Next ==
    \/ Construct
    \/ Update
    \/ CmdVelChanged
    \/ _emergency
    \/ RosShutdown
    \/ PublisherConnect
    \/ PublisherDisconnect
    \/ LinkConnected
    \/ LinkOpenFailed
    \/ LinkLost
    \/ LinkLostSecond
    \/ LinkQuality

Spec == Init /\ [][Next]_vars

(* The watchdog is a thread of its own and no step of it blocks *)
FairSpec == Spec /\ WF_vars(Update)

----------------------------------------------------------------------------
(* _send_setpoint and the shutdown send run on their own, without any     *)
(* other thread, on commands and trims drawn from wider sets              *)

Axis == {5 * k : k \in -MaxAxis..MaxAxis}

Verticals == {-15, -10, -5, 0, 5, 15, 1000, 599995, 600000, 600005, 700000}

WideCmds ==
    {Twist(lx, ly, lz, az) : lx \in Axis, ly \in Axis, lz \in Verticals,
                             az \in {-1, 0, 1}} \cup {CmdA}

WideTrims == {<<10, -5>>, <<0, 0>>, <<-5, 10>>}

ThrustInputs == {-2, -1, 0, 1, 100, 59999, 60000, 60001, 70000}

NoResult == [by |-> "none", sp |-> ZeroSetpoint, c2 |-> 0, cc |-> 0]

PureInit ==
    /\ init_pc = "done"
    /\ state = Connected
    /\ isEmergency = FALSE
    /\ cmdVel \in WideCmds
    /\ \E tp \in WideTrims : roll_trim = tp[1] /\ pitch_trim = tp[2]
    /\ isShutdown = FALSE
    /\ numConn = 0
    /\ linkPhase = "up"
    /\ pendingEv = "none"
    /\ wd_pc = "L250"
    /\ wd_loc = NoLocals
    /\ wd_i = 0
    /\ wd_branch = "none"
    /\ wd_sent = <<>>
    /\ sdCount = 0
    /\ closeCount = 0
    /\ wd_gap = NoGap
    /\ cb_pc = "idle"
    /\ cb_data = ZeroTwist
    /\ cb_loc = NoLocals
    /\ cb_sent = <<>>
    /\ cb_emBegin = FALSE
    /\ p_pc = "call"
    /\ p_t \in ThrustInputs
    /\ p_out = NoResult
    /\ node_ns = RootNs
    /\ ParamsIdle
    /\ SetupIdle
    /\ ImuIdle

(* lines 236-242 in order: the setpoint handed to send_setpoint *)
P_send_setpoint ==
    /\ p_pc = "call"
    /\ LET l1 == SendStep("L237", NoLocals)
           l2 == SendStep("L238", l1)
           l3 == SendStep("L239", l2)
           l4 == SendStep("L240", l3)
       IN  p_out' = [p_out EXCEPT !.by = "send_setpoint", !.sp = l4]
    /\ p_pc' = "sent"
    /\ UNCHANGED <<sessionVars, p_t, paramVars, setupVars, imuVars>>

(* line 269: the setpoint of the shutdown sequence *)
P_shutdown_send ==
    /\ p_pc = "call"
    /\ p_out' = [p_out EXCEPT !.by = "shutdown", !.sp = ZeroSetpoint]
    /\ p_pc' = "sent"
    /\ UNCHANGED <<sessionVars, p_t, paramVars, setupVars, imuVars>>

(* the clamp of line 240 applied to a second input, and applied again to *)
(* the thrust that was sent                                              *)
P_clamp ==
    /\ p_pc = "sent"
    /\ p_out' = [p_out EXCEPT !.c2 = Clamp(p_t), !.cc = Clamp(p_out.sp.thrust)]
    /\ p_pc' = "clamped"
    /\ UNCHANGED <<sessionVars, p_t, paramVars, setupVars, imuVars>>

PureNext ==
    \/ P_send_setpoint
    \/ P_shutdown_send
    \/ P_clamp

PureSpec == PureInit /\ [][PureNext]_vars

----------------------------------------------------------------------------
(* Parameter sync, lines 217-229: the update_params service handler, the   *)
(* device's parameter-change callback, and other nodes writing the store   *)

ReqPaths == {<<"g", "/", "n">>, <<"h", "/", "n">>}

DevNames == {<<"g", ".", "n">>, <<"h", ".", "n">>}

Values == {-3}

(* the values the device reports *)
DevValues == {12}

Requests == UNION {[1..n -> ReqPaths] : n \in 0..MaxReq}

(* a client calls the service: _update_params(req), line 221 *)
U_Begin ==
    /\ u_pc \in {"idle", "done", "raised"}
    /\ \E req \in Requests : u_req' = req
    /\ u_i' = 1
    /\ pushes' = <<>>
    /\ u_pc' = "L223"
    /\ UNCHANGED <<sessionVars, pureVars, imuVars, setupVars, node_ns, store, u_val>>

(* line 223: for param in req.params *)
U_L223 ==
    /\ u_pc = "L223"
    /\ u_pc' = IF u_i <= Len(u_req) THEN "L224" ELSE "L229"
    /\ UNCHANGED <<sessionVars, pureVars, imuVars, setupVars, node_ns, store, u_req, u_i,
                   u_val, pushes>>

(* lines 224-228 up to the answer of rospy.get_param(ros_param): the     *)
(* value the store holds, or KeyError for a path the store holds no      *)
(* value at (the has_param test of line 227 is commented out); the       *)
(* exception leaves the handler                                          *)
U_L224 ==
    /\ u_pc = "L224"
    /\ LET ros_param == RosParamOfPath(u_req[u_i])
       IN  IF HasParam(store, ros_param)
           THEN /\ u_val' = GetParam(store, ros_param)
                /\ u_pc' = "L228"
           ELSE /\ u_pc' = "raised"
                /\ UNCHANGED u_val
    /\ UNCHANGED <<sessionVars, pureVars, imuVars, setupVars, node_ns, store, u_req, u_i,
                   pushes>>

(* line 228, the answer received: self._cf.param.set_value(cf_param,     *)
(* str(value)); the answer is a temporary, gone after the call           *)
U_L228 ==
    /\ u_pc = "L228"
    /\ pushes' = Append(pushes, <<CfParamOfPath(u_req[u_i]), StrOf(u_val)>>)
    /\ u_i' = u_i + 1
    /\ u_val' = 0
    /\ u_pc' = "L223"
    /\ UNCHANGED <<sessionVars, pureVars, imuVars, setupVars, node_ns, store, u_req>>

(* line 229: return UpdateParamsResponse() *)
U_L229 ==
    /\ u_pc = "L229"
    /\ u_pc' = "done"
    /\ UNCHANGED <<sessionVars, pureVars, imuVars, setupVars, node_ns, store, u_req, u_i,
                   u_val, pushes>>

UpdateParams ==
    \/ U_Begin
    \/ U_L223
    \/ U_L224
    \/ U_L228
    \/ U_L229

(* _param_callback, lines 217-219: the device reports (name, value) *)
_param_callback ==
    /\ \E name \in DevNames, value \in DevValues :
          store' = SetParam(store, RosParamOfName(name), value)
    /\ UNCHANGED <<sessionVars, pureVars, imuVars, setupVars, node_ns, u_pc, u_req, u_i,
                   u_val, pushes>>

(* another node sets or deletes a parameter of this session in the store *)
ExternalSetParam ==
    /\ \E param \in ReqPaths, value \in Values :
          store' = SetParam(store, RosParamOfPath(param), value)
    /\ UNCHANGED <<sessionVars, pureVars, imuVars, setupVars, node_ns, u_pc, u_req, u_i,
                   u_val, pushes>>

ExternalDeleteParam ==
    /\ \E key \in DOMAIN store :
          store' = [k \in DOMAIN store \ {key} |-> store[k]]
    /\ UNCHANGED <<sessionVars, pureVars, imuVars, setupVars, node_ns, u_pc, u_req, u_i,
                   u_val, pushes>>

ParamNext ==
    \/ UpdateParams
    \/ _param_callback
    \/ ExternalSetParam
    \/ ExternalDeleteParam

ParamSpec == Constructed /\ [][ParamNext]_vars

----------------------------------------------------------------------------
(* Session setup, lines 56-134: _connected, run by the link driver on      *)
(* every entry into Connected, one step per read of the store              *)

(* the parameters a device may have *)
TocEntries == {<<"g", "n">>, <<"h", "n">>}

(* the catalogs a device may report: no parameter, all of them *)
Tocs == {{}, TocEntries}

(* the outcomes of validating the telemetry blocks against the device:  *)
(* both valid, the IMU block invalid                                     *)
LogOKs == {[b \in Blocks |-> TRUE], [b \in Blocks |-> b # "IMU"]}

(* line 129: "/{}/{}/{}".format(self.tf_prefix, group, name) *)
RosParamOfEntry(e) == <<"/">> \o tf_prefix \o <<"/", e[1], "/", e[2]>>

(* line 130: "{}.{}".format(group, name) *)
CfParamOfEntry(e) == <<e[1], ".", e[2]>>

(* p_toc.keys(), p_toc[group].keys() *)
GroupsOf(toc) == {e[1] : e \in toc}

NamesOf(toc, group) == {e[2] : e \in {x \in toc : x[1] = group}}

(* __init__, lines 20-49, for a device and a logging flag *)
SetupInit ==
    /\ init_pc = "done"
    /\ state = Disconnected
    /\ isEmergency = FALSE
    /\ cmdVel = ZeroTwist
    /\ \E tp \in TrimPairs : roll_trim = tp[1] /\ pitch_trim = tp[2]
    /\ isShutdown = FALSE
    /\ numConn = 0
    /\ linkPhase = "closed"
    /\ pendingEv = "none"
    /\ wd_pc = "L250"
    /\ wd_loc = NoLocals
    /\ wd_i = 0
    /\ wd_branch = "none"
    /\ wd_sent = <<>>
    /\ sdCount = 0
    /\ closeCount = 0
    /\ wd_gap = NoGap
    /\ cb_pc = "idle"
    /\ cb_data = ZeroTwist
    /\ cb_loc = NoLocals
    /\ cb_sent = <<>>
    /\ cb_emBegin = FALSE
    /\ p_pc = "off"
    /\ p_t = 0
    /\ p_out = [by |-> "none", sp |-> ZeroSetpoint, c2 |-> 0, cc |-> 0]
    /\ node_ns \in Namespaces
    /\ ParamsIdle
    /\ enable_logging \in BOOLEAN
    /\ dev \in [toc : Tocs, logOK : LogOKs]
    /\ enable_logging \/ dev.logOK = [b \in Blocks |-> TRUE]
    /\ conns = 0
    /\ s_pc = "idle"
    /\ s_loop = NoLoop
    /\ s_val = 0
    /\ s_acts = <<>>
    /\ tele = NoCalls
    /\ ImuIdle

(* lines 64-101 for one block: add_config, then start() if the block is  *)
(* valid, else logfatal                                                  *)
RegisterBlock(t, b) ==
    [t EXCEPT !.reg[b] = @ + 1,
              !.started[b] = IF dev.logOK[b] THEN @ + 1 ELSE @]

(* _connected, lines 56-125: the state, the two telemetry blocks if      *)
(* logging is enabled, and the catalog the parameter loop will walk.     *)
(* The driver calls _connected from one thread: a call begins when the   *)
(* one before it has returned or raised.                                 *)
S_connected ==
    /\ linkPhase = "opening"
    /\ pendingEv = "none"
    /\ s_pc \in {"idle", "raised"}
    /\ conns < MaxConnects
    /\ linkPhase' = "up"
    /\ _connected
    /\ conns' = conns + 1
    /\ tele' = IF enable_logging
               THEN RegisterBlock(RegisterBlock(tele, "IMU"), "LOG2")
               ELSE tele
    /\ s_loop' = [groups |-> GroupsOf(dev.toc), group |-> "", names |-> {}, name |-> ""]
    /\ s_acts' = [e \in dev.toc |-> <<>>]
    /\ s_pc' = "L126"
    /\ UNCHANGED <<init_pc, isEmergency, cmdVel, roll_trim, pitch_trim, isShutdown, numConn,
                   pendingEv, wdVars, wd_gap, cbVars, pureVars, imuVars, paramVars,
                   enable_logging, dev, s_val>>

(* lines 126-127: for group in p_toc.keys(): add_update_callback(group) *)
S_L126 ==
    /\ s_pc = "L126"
    /\ IF s_loop.groups = {}
       THEN /\ s_pc' = "idle"
            /\ s_loop' = NoLoop
            /\ UNCHANGED tele
       ELSE \E group \in s_loop.groups :
               /\ s_loop' = [groups |-> s_loop.groups \ {group}, group |-> group,
                             names |-> NamesOf(dev.toc, group), name |-> ""]
               /\ tele' = [tele EXCEPT !.cbs = @ + 1]
               /\ s_pc' = "L128"
    /\ UNCHANGED <<sessionVars, pureVars, imuVars, paramVars, enable_logging, dev, conns,
                   s_val, s_acts>>

(* line 128: for name in p_toc[group].keys() *)
S_L128 ==
    /\ s_pc = "L128"
    /\ IF s_loop.names = {}
       THEN /\ s_pc' = "L126"
            /\ UNCHANGED s_loop
       ELSE \E name \in s_loop.names :
               /\ s_loop' = [s_loop EXCEPT !.names = @ \ {name}, !.name = name]
               /\ s_pc' = "L131"
    /\ UNCHANGED <<sessionVars, pureVars, imuVars, paramVars, enable_logging, dev, conns,
                   s_val, s_acts, tele>>

(* lines 129-131: ros_param, cf_param, and the answer of                 *)
(* rospy.has_param(ros_param)                                            *)
S_L131 ==
    /\ s_pc = "L131"
    /\ s_pc' = IF HasParam(store, RosParamOfEntry(<<s_loop.group, s_loop.name>>))
               THEN "L132"
               ELSE "L134"
    /\ UNCHANGED <<sessionVars, pureVars, imuVars, paramVars, enable_logging, dev, conns,
                   s_loop, s_val, s_acts, tele>>

(* line 132, the argument: the answer of rospy.get_param(ros_param), or  *)
(* KeyError, which leaves _connected, if the store has lost the value    *)
(* since line 131                                                        *)
S_L132 ==
    /\ s_pc = "L132"
    /\ LET ros_param == RosParamOfEntry(<<s_loop.group, s_loop.name>>)
       IN  IF HasParam(store, ros_param)
           THEN /\ s_val' = GetParam(store, ros_param)
                /\ s_pc' = "L132_set_value"
           ELSE /\ s_pc' = "raised"
                /\ UNCHANGED s_val
    /\ UNCHANGED <<sessionVars, pureVars, imuVars, paramVars, enable_logging, dev, conns,
                   s_loop, s_acts, tele>>

(* line 132, the answer received: self._cf.param.set_value(cf_param,     *)
(* value); the answer is a temporary, gone after the call                *)
S_L132_set_value ==
    /\ s_pc = "L132_set_value"
    /\ LET e == <<s_loop.group, s_loop.name>>
       IN  s_acts' = [s_acts EXCEPT ![e] =
                         Append(@, <<"set_value", CfParamOfEntry(e), s_val>>)]
    /\ s_val' = 0
    /\ s_pc' = "L128"
    /\ UNCHANGED <<sessionVars, pureVars, imuVars, paramVars, enable_logging, dev, conns,
                   s_loop, tele>>

(* line 134: self._cf.param.request_param_update(cf_param) *)
S_L134 ==
    /\ s_pc = "L134"
    /\ LET e == <<s_loop.group, s_loop.name>>
       IN  s_acts' = [s_acts EXCEPT ![e] =
                         Append(@, <<"request_param_update", CfParamOfEntry(e)>>)]
    /\ s_pc' = "L128"
    /\ UNCHANGED <<sessionVars, pureVars, imuVars, paramVars, enable_logging, dev, conns,
                   s_loop, s_val, tele>>

(* _connected with the watchdog thread and the link callbacks around it; *)
(* neither the latch nor termination is requested                        *)
SetupNext ==
    \/ S_connected
    \/ S_L126
    \/ S_L128
    \/ S_L131
    \/ S_L132
    \/ S_L132_set_value
    \/ S_L134
    \/ LinkOpenFailed
    \/ LinkLost
    \/ LinkLostSecond
    \/ Wd_L250
    \/ Wd_L251
    \/ Wd_L254
    \/ Wd_L53
    \/ Wd_L54
    \/ Wd_L256
    \/ Wd_L260
    \/ Wd_L263
    \/ Wd_Compute
    \/ Wd_L242
    \/ Wd_L265
    \/ Wd_L267
    \/ _param_callback
    \/ ExternalSetParam
    \/ ExternalDeleteParam

SetupSpec == SetupInit /\ [][SetupNext]_vars

----------------------------------------------------------------------------
(* Inertial telemetry, lines 164-182: _log_data_imu *)

(* line 173: math.radians(d), d in deg/s, result in millionths of rad/s *)
RadiansOf(d) ==
    IF d >= 0 THEN (d * PiMicro) \div 180 ELSE -(((-d) * PiMicro) \div 180)

(* line 178: r * 9.81, result in hundredths of m/s^2 *)
AccOf(r) == r * Gravity

(* accelerometer and gyroscope readings of a sample, in device units *)
AccReadings == {1000 * k : k \in -1..MaxG} \cup {1}

GyroReadings == {-180, 0, 90, 180}

Samples ==
    {[gyro |-> <<gx, gy, gz>>, acc |-> <<ax, ay, az>>] :
        gx \in GyroReadings, gy \in {0, 180}, gz \in {0, -180},
        ax \in AccReadings, ay \in {0, 1000}, az \in {0, 1000}}

(* the log block delivers a sample: the driver calls _log_data_imu *)
ImuSample ==
    /\ imu_pc = "idle"
    /\ imu_data' \in Samples
    /\ imu_pc' = "L166"
    /\ UNCHANGED <<sessionVars, pureVars, paramVars, setupVars, imu_msg>>

(* _log_data_imu, lines 166-182 *)
_log_data_imu ==
    /\ imu_pc = "L166"
    /\ imu_msg' = ImuMsg(tf_prefix \o <<"/", "base_link">>, -1,
                         <<RadiansOf(imu_data.gyro[1]), RadiansOf(imu_data.gyro[2]),
                           RadiansOf(imu_data.gyro[3])>>,
                         <<AccOf(imu_data.acc[1]), AccOf(imu_data.acc[2]),
                           AccOf(imu_data.acc[3])>>)
    /\ imu_pc' = "idle"
    /\ UNCHANGED <<sessionVars, pureVars, paramVars, setupVars, imu_data>>

ImuNext ==
    \/ ImuSample
    \/ _log_data_imu

ImuInit == Constructed /\ node_ns = RootNs

ImuSpec == ImuInit /\ [][ImuNext]_vars

----------------------------------------------------------------------------
(* Claims *)

(* A step that changes _state follows the transition table of the          *)
(* connection state machine, and is taken by the event the table names     *)
TableStep ==
    (state' # state) =>
        \/ state = Unassigned /\ state' = Disconnected /\ Ctor_L43
        \/ state = Disconnected /\ state' = Connecting /\ Wd_L53
        \/ state = Connecting /\ state' = Connected /\ LinkConnected
        \/ state = Connecting /\ state' = Disconnected /\ LinkOpenFailed
        \/ state = Connected /\ state' = Disconnected
               /\ (LinkLost \/ LinkLostSecond \/ Wd_L274)

(* C1: the lifecycle state starts as Disconnected (the value __init__      *)
(* gives it at line 43) and changes only along                             *)
(* the transition table: Disconnected->Connecting by the watchdog,         *)
(* Connecting->Connected by the connected event, Connecting->Disconnected  *)
(* by the connection-failed event, Connected->Disconnected by the          *)
(* connection-lost or disconnected event, and nothing else.                *)
C1_TransitionTable ==
    /\ [](init_pc \in {"L35", "L43"} <=> state = Unassigned)
    /\ [][TableStep]_vars

(* a call that began with the latch set leaves _cmdVel as it was at line 245 *)
NoWriteStep == (cb_emBegin /\ Cb_L245) => (cmdVel' = cmdVel)

(* C2: once the Emergency latch has been set, no subsequent               *)
(* _cmdVelChanged call alters the stored setpoint: for every command       *)
(* delivered after the latch is set, _cmdVel is the same after the call    *)
(* as before it.                                                           *)
C2_NoWriteAfterLatch == [][NoWriteStep]_vars

ShutdownInv ==
    /\ sdCount <= 100
    /\ closeCount <= 1
    /\ (sdCount > 0 => wd_pc \in ShutdownPCs \cup {"done"})
    /\ (wd_pc \in ShutdownPCs \cup {"done"} =>
            wd_sent \in {<<>>, <<Setpoint(0, 0, 0, 0)>>})
    /\ (wd_pc = "L269" => sdCount = wd_i /\ wd_i < 100)
    /\ (wd_pc = "L270" => sdCount = wd_i + 1)
    /\ (wd_pc \in {"L273", "L274"} => sdCount = 100 /\ closeCount = 0)
    /\ (wd_pc = "done" <=> closeCount = 1)
    /\ (closeCount = 1 => sdCount = 100 /\ linkPhase = "closed")
    /\ (wd_pc \in ShutdownPCs => ENABLED Update)

(* the sequence is left by close_link alone, after the 100 setpoints *)
ShutdownExit ==
    (wd_pc \in ShutdownPCs /\ wd_pc' \notin ShutdownPCs)
        => (Wd_L274 /\ wd_pc' = "done" /\ sdCount' = 100 /\ closeCount' = 1)

(* C3: when the watchdog leaves its periodic phase, on the latch or on     *)
(* termination and in whatever lifecycle state, it sends exactly 100 zero  *)
(* setpoints itself, one before each wait of line 270, closes the link    *)
(* only after the last of them and exactly once; no step of the sequence   *)
(* waits for the link, so the thread never stays in the sequence: once    *)
(* entered, it runs to its end.                                            *)
C3_ShutdownSequence ==
    /\ []ShutdownInv
    /\ [][ShutdownExit]_vars
    /\ []<>(wd_pc \notin ShutdownPCs)

(* the sequence has run to its end on an emergency, with the link still   *)
(* unanswered (Connecting)                                                *)
C3_Witness ==
    /\ wd_pc = "done"
    /\ sdCount = 100
    /\ closeCount = 1
    /\ state = Connecting
    /\ isEmergency

(* C4: if the latch is set while the watchdog is in its periodic phase,    *)
(* then, the watchdog thread being scheduled fairly, it enters the         *)
(* shutdown sequence, the link is closed and the thread ends, whatever     *)
(* the lifecycle state and whichever link events arrive.                   *)
C4_EmergencyTerminates ==
    (isEmergency /\ wd_pc \in PeriodicPCs /\ state \in {Disconnected, Connecting, Connected})
        ~> (wd_pc = "done" /\ closeCount = 1 /\ linkPhase = "closed")

(* the thread has ended on the latch alone, termination not requested *)
C4_Witness ==
    /\ isEmergency
    /\ ~isShutdown
    /\ wd_pc = "done"
    /\ closeCount = 1

(* C5: the latch is false when __init__ returns, the emergency request    *)
(* sets it in one step that does not wait for the watchdog, and once true  *)
(* it stays true: no step resets it.                                       *)
C5_LatchOneWay ==
    /\ [][(init_pc # "done" /\ init_pc' = "done") => ~isEmergency']_vars
    /\ [][isEmergency => isEmergency']_vars
    /\ [][_emergency => (isEmergency' /\ wd_pc' = wd_pc)]_vars
    /\ [](init_pc = "done" => ENABLED _emergency)

(* _send_setpoint run from its first to its last statement on one Twist *)
SendSetpoint(tw, rt, pt) ==
    Setpoint(RollOf(tw, rt), PitchOf(tw, pt), YawrateOf(tw), ThrustOf(tw))

(* C6: a _cmdVelChanged call that begins with the latch set sends no       *)
(* setpoint (it returns at line 246); a call that begins with the latch    *)
(* not set goes on to _send_setpoint and sends exactly one setpoint,       *)
(* derived from the command it received.                                   *)
C6_SendIffLatchUnsetAtBegin ==
    /\ [][Cb_L246 => (cb_pc' = IF cb_emBegin THEN "ret" ELSE "L237")]_vars
    /\ [][Cb_L242 => cb_sent' = <<SendSetpoint(cb_data, roll_trim, pitch_trim)>>]_vars
    /\ [](Len(cb_sent) <= 1)

(* the link is down and _state says so: the state after __init__, after a *)
(* connection-failed event while Connecting, and after a connection-lost  *)
(* or disconnected event while Connected                                  *)
LinkDown == init_pc = "done" /\ state = Disconnected /\ linkPhase = "closed"

(* C9: after a link failure has put the state to Disconnected, and with    *)
(* neither the latch nor termination in effect, the watchdog iteration     *)
(* that reads the state takes _try_to_connect: it sets Connecting and      *)
(* issues open_link; the watchdog being scheduled fairly, this happens     *)
(* after every failure.                                                    *)
C9_AutomaticRetry ==
    /\ [][(Wd_L254 /\ state = Disconnected) => wd_pc' = "L53"]_vars
    /\ [][Wd_L53 => (state' = Connecting /\ wd_pc' = "L54")]_vars
    /\ [][Wd_L54 => linkPhase' = "opening"]_vars
    /\ (LinkDown /\ ~isEmergency /\ ~isShutdown)
          ~> (wd_pc = "L54" \/ isEmergency \/ isShutdown)

(* the link was lost (its second callback is still pending) and the       *)
(* watchdog has already set Connecting and is about to call open_link     *)
C9_Witness ==
    /\ pendingEv # "none"
    /\ wd_pc = "L54"
    /\ state = Connecting
    /\ ~isEmergency
    /\ ~isShutdown

(* floor of a float, and the clamp, as the specification states them *)
FloorOf(v) == v \div Scale

ClampTo(t, lo, hi) == IF t < lo THEN lo ELSE IF t > hi THEN hi ELSE t

(* C7: for every command and every pair of trims, _send_setpoint sends     *)
(* roll = lateral + roll_trim, pitch = longitudinal + pitch_trim,          *)
(* yaw_rate = angular, thrust = clamp(floor(vertical), 0, 60000), also for *)
(* negative and non-integer vertical values, where int() truncates.        *)
C7_SetpointFormula ==
    (p_pc \in {"sent", "clamped"} /\ p_out.by = "send_setpoint") =>
        p_out.sp = Setpoint(cmdVel.ly + roll_trim, cmdVel.lx + pitch_trim, cmdVel.az,
                            ClampTo(FloorOf(cmdVel.lz), 0, 60000))

(* the specification's scenario: trims (1.0, -0.5), command lateral 2.0,  *)
(* longitudinal 3.0, angular 0.1, vertical 100 gives (3.0, 2.5, 0.1, 100) *)
C7_Witness ==
    /\ p_pc = "sent"
    /\ p_out.by = "send_setpoint"
    /\ roll_trim = 10 /\ pitch_trim = -5
    /\ cmdVel = Twist(30, 20, 1000, 1)
    /\ p_out.sp = Setpoint(30, 25, 1, 100)

(* C8: the thrust clamp is idempotent and monotonic, and every setpoint    *)
(* handed to the link, by _send_setpoint or by the shutdown sequence, has  *)
(* its thrust in [0, 60000].                                               *)
C8_ClampProperties ==
    /\ (p_pc \in {"sent", "clamped"} => p_out.sp.thrust \in 0..60000)
    /\ (p_pc = "clamped" => p_out.cc = p_out.sp.thrust)
    /\ (p_pc = "clamped" /\ p_out.by = "send_setpoint" =>
            /\ (IntOf(cmdVel.lz) <= p_t => p_out.sp.thrust <= p_out.c2)
            /\ (p_t <= IntOf(cmdVel.lz) => p_out.c2 <= p_out.sp.thrust))

(* a vertical command above the limit was clamped to 60000, below a       *)
(* second input that is clamped to 60000 as well                          *)
C8_Witness ==
    /\ p_pc = "clamped"
    /\ p_out.by = "send_setpoint"
    /\ cmdVel.lz = 600005
    /\ p_t = 70000
    /\ p_out.sp.thrust = 60000
    /\ p_out.c2 = 60000
    /\ p_out.cc = 60000

(* C10 as claimed: in a watchdog iteration that observed Connected, with a *)
(* subscriber the setpoint sent is the one derived from the shared         *)
(* Setpoint, which the iteration leaves alone; without a subscriber the    *)
(* shared Setpoint is overwritten with the zero default and the setpoint   *)
(* sent is the one derived from that default (thrust 0), also when a       *)
(* _cmdVelChanged call interleaves with the iteration.                     *)
C10_WatchdogSendsStoredOrZero ==
    (wd_pc = "L265" /\ wd_branch # "none") =>
        /\ Len(wd_sent) = 1
        /\ wd_branch = "sub" =>
              \E c \in Cmds \cup {ZeroTwist} :
                  wd_sent[1] = SendSetpoint(c, roll_trim, pitch_trim)
        /\ wd_branch = "nosub" =>
              wd_sent[1] = SendSetpoint(ZeroTwist, roll_trim, pitch_trim)

(* C11: while _state stays Connected and neither the latch nor termination *)
(* takes the watchdog out of its loop, every iteration sends exactly one   *)
(* setpoint, and between two consecutive sends the watchdog sleeps once,   *)
(* for 200 ms, never for the 500 ms of line 267: the sleep between two     *)
(* sends stays below the 500 ms failsafe window.                           *)
C11_CadenceWhileConnected ==
    /\ [](wd_gap < 500)
    /\ [](wd_gap \in {NoGap, 0, 200})
    /\ [](wd_pc = "L265" => Len(wd_sent) = 1)
    /\ [](wd_pc = "L267" => wd_gap = NoGap)
    /\ [][(Wd_L242 /\ wd_gap # NoGap) => wd_gap = 200]_vars
    /\ [][(Wd_L242 /\ state = Connected) => (wd_gap' = 0 /\ wd_pc' = "L265")]_vars
    /\ [][(Wd_L265 /\ wd_gap # NoGap) => (wd_gap = 0 /\ wd_gap' = 200)]_vars

(* the watchdog is about to send again, 200 ms of sleep after its last    *)
(* send, this time without a subscriber                                   *)
C11_Witness ==
    /\ wd_pc = "L242"
    /\ wd_gap = 200
    /\ wd_branch = "nosub"
    /\ state = Connected
    /\ ~isEmergency
    /\ ~isShutdown

(* the for loop of _update_params has taken the element at position k *)
Visited(k) == k < u_i \/ (k = u_i /\ u_pc = "raised")

(* C12: an update_params request handles every listed path on its own: a  *)
(* path whose read fails does not keep the paths after it from being read  *)
(* and pushed, and the pushes already made stay made.                      *)
C12_IndependentPushes ==
    /\ [](u_pc \in {"done", "raised"} => \A k \in 1..Len(u_req) : Visited(k))
    /\ [][(u_pc \in {"L223", "L224", "L228"}) =>
            (Len(pushes') >= Len(pushes) /\ SubSeq(pushes', 1, Len(pushes)) = pushes)]_vars

(* C13: when the handler has finished, every position of the request has   *)
(* exactly one push, whose identifier is the path with "/" replaced by     *)
(* "." (g/n -> g.n) and whose value is the string form of the value the    *)
(* store answered for the path: the answer is the store's value at the     *)
(* time of the read, and the push made for it carries that answer; and     *)
(* the mapping undoes the callback's mapping of "." to "/" for every       *)
(* device name without "/".                                                *)
C13_PushPerPath ==
    /\ [](u_pc \in {"done", "raised"} =>
            /\ Len(pushes) = Len(u_req)
            /\ \A k \in 1..Len(u_req) : pushes[k][1] = Replace(u_req[k], "/", "."))
    /\ [][(U_L224 /\ u_pc' = "L228") => u_val' = store[RosParamOfPath(u_req[u_i])]]_vars
    /\ [][U_L228 => pushes' = Append(pushes, <<Replace(u_req[u_i], "/", "."), StrOf(u_val)>>)]_vars
    /\ [](\A name \in DevNames :
            CfParamOfPath(Replace(name, ".", "/")) = name)

(* the parameter loop of the latest entry into Connected has ended *)
SetupDone == conns > 0 /\ s_pc \in {"idle", "raised"}

(* C14: on every entry into Connected, with or without telemetry, the      *)
(* setup makes exactly one call for every entry of the device's parameter  *)
(* catalog: set_value with the value the store answered if the store       *)
(* answered at line 131 that it holds a value at the entry's path, else    *)
(* request_param_update; no entry receives both or neither.                *)
C14_OneActionPerEntry ==
    /\ [](conns > 0 => DOMAIN s_acts = dev.toc)
    /\ [](SetupDone => \A e \in dev.toc : Len(s_acts[e]) = 1)
    /\ [](\A e \in DOMAIN s_acts : Len(s_acts[e]) <= 1)
    /\ [][S_L131 => (s_pc' = IF RosParamOfEntry(<<s_loop.group, s_loop.name>>) \in DOMAIN store
                             THEN "L132"
                             ELSE "L134")]_vars
    /\ [][(S_L132 /\ s_pc' = "L132_set_value") =>
            s_val' = store[RosParamOfEntry(<<s_loop.group, s_loop.name>>)]]_vars
    /\ [][S_L132_set_value =>
            s_acts'[<<s_loop.group, s_loop.name>>] =
                <<<<"set_value", <<s_loop.group, ".", s_loop.name>>, s_val>>>>]_vars
    /\ [][S_L134 =>
            s_acts'[<<s_loop.group, s_loop.name>>] =
                <<<<"request_param_update", <<s_loop.group, ".", s_loop.name>>>>>>]_vars

(* C15: a telemetry block that fails validation against the device's       *)
(* capability table is never started and its registration is attempted at  *)
(* most once in the session's lifetime, reconnects included.               *)
C15_InvalidBlockSkippedForGood ==
    \A b \in Blocks :
        (enable_logging /\ ~dev.logOK[b]) =>
            (tele.started[b] = 0 /\ tele.reg[b] <= 1)

(* |a| *)
AbsOf(a) == IF a < 0 THEN -a ELSE a

(* a milli-g reading in hundredths of m/s^2: reading x 9.81 / 1000 *)
MilliGToAcc(r) == IF r >= 0 THEN (r * 981) \div 1000 ELSE -(((-r) * 981) \div 1000)

(* C16: every linear-acceleration component published for a sample is the  *)
(* milli-g reading times 9.81 / 1000, to within one per cent and the unit  *)
(* of rounding (a reading of 1000 gives about 9.81 m/s^2), and the         *)
(* conversion is linear.                                                   *)
C16_AccelFromMilliG ==
    /\ (imu_pc = "idle" /\ imu_msg # NoMsg) =>
          \A k \in 1..3 :
              AbsOf(imu_msg.linear_acceleration[k] - MilliGToAcc(imu_data.acc[k]))
                  <= AbsOf(MilliGToAcc(imu_data.acc[k])) \div 100 + 1
    /\ \A a, b \in AccReadings : AccOf(a + b) = AccOf(a) + AccOf(b)

(* the values _cmdVel ever holds: a delivered command or the zero default *)
StoredCommands == Cmds \cup {ZeroTwist}

(* sp is what _send_setpoint computes from one stored command *)
FromOneCommand(sp) ==
    \E c \in StoredCommands : sp = SendSetpoint(c, roll_trim, pitch_trim)

(* C17: every setpoint _send_setpoint hands to the link, from the watchdog *)
(* or from _cmdVelChanged, has its four fields derived from one and the    *)
(* same stored command, under every interleaving of the two.               *)
C17_SetpointFromOneCommand ==
    /\ [][Wd_L242 => FromOneCommand(wd_loc)]_vars
    /\ [][Cb_L242 => FromOneCommand(cb_loc)]_vars

(* C18: from the watchdog's entry into the shutdown sequence until the     *)
(* link is closed, every setpoint handed to the link, by the watchdog or   *)
(* by a _cmdVelChanged call, is (0, 0, 0, 0).                              *)
C18_OnlyZeroDuringShutdown ==
    /\ [][Wd_L269 => wd_sent' = <<Setpoint(0, 0, 0, 0)>>]_vars
    /\ [][(Cb_L242 /\ wd_pc \in ShutdownPCs) => cb_loc = Setpoint(0, 0, 0, 0)]_vars
    /\ [][(Wd_L242 /\ wd_pc \in ShutdownPCs) => wd_loc = Setpoint(0, 0, 0, 0)]_vars

(* C19: open_link is called only when no earlier open request is           *)
(* unresolved and the link is not up.                                      *)
C19_NoSecondOpen == [][Wd_L54 => linkPhase = "closed"]_vars

(* C20 as claimed: outside the shutdown sequence a setpoint is handed to   *)
(* the link, by the watchdog or by a _cmdVelChanged call, only while the   *)
(* lifecycle state is Connected.                                           *)
C20_SendOnlyWhileConnected ==
    /\ [][Wd_L242 => state = Connected]_vars
    /\ [][(Cb_L242 /\ wd_pc \in PeriodicPCs) => state = Connected]_vars

(* C20 as amended: the watchdog enters the sending branch only from line   *)
(* 256 having read Connected, and does not read the state again before it  *)
(* sends: at its send the state is Connected, or Disconnected when a link  *)
(* event overtook it, never Connecting; a _cmdVelChanged call does not     *)
(* read the state: whether it sends is decided by the latch alone.         *)
C20_SendAfterConnectedRead ==
    /\ [][Wd_L256 => ((wd_pc' = "L260") <=> (state = Connected))]_vars
    /\ [][(wd_pc' = "L260" /\ wd_pc # "L260") => (wd_pc = "L256" /\ state = Connected)]_vars
    /\ [][(wd_pc' \in {"L263", "L237"} /\ wd_pc \notin {"L263", "L237"}) => wd_pc \in {"L260", "L263"}]_vars
    /\ [][Wd_L242 => state \in {Connected, Disconnected}]_vars
    /\ [][Cb_L246 => ((cb_pc' = "L237") <=> (HasLatch /\ ~isEmergency))]_vars
    /\ [][(cb_pc' = "L237" /\ cb_pc # "L237") => (cb_pc = "L246" /\ ~isEmergency)]_vars

(* the watchdog, overtaken by a link loss, is about to send while the     *)
(* state is Disconnected, and a command has been sent by its callback     *)
C20_Witness ==
    /\ wd_pc = "L242"
    /\ state = Disconnected
    /\ linkPhase = "closed"
    /\ cb_pc = "ret"
    /\ Len(cb_sent) = 1

====
